---- MODULE Spec2Model ----
(***************************************************************************)
(* Typed HTTP headers of hyper: the Content-Length header (a u64) and the  *)
(* Transfer-Encoding header (a list of Encoding tokens), their decoding    *)
(* from the raw header lines and their encoding to the wire form.          *)
(*                                                                         *)
(* A string is a sequence of one-character strings; a raw line is a        *)
(* sequence of bytes, written the same way, with one byte (BadByte) that   *)
(* never occurs in valid UTF-8.  Option<T> is a sequence of length at most *)
(* one: None is <<>>, Some(v) is <<v>>.  A u64 is its sequence of decimal  *)
(* digits (integers 0..9) without leading zeros, zero being <<>>, so that  *)
(* the whole 64-bit range is represented exactly.                          *)
(***************************************************************************)
EXTENDS Integers, Sequences, FiniteSets, TLC

VARIABLES kind, pc, origin, raw, nfrags, parsed, tok, out, reparsed

vars == <<kind, pc, origin, raw, nfrags, parsed, tok, out, reparsed>>

\* ------------------------------------------------------------------ bounds
MaxLines == 2
MaxFrags == 3
MaxTokens == 2
MaxExtFrags == 2

\* ------------------------------------------------------------ Option, text
None == <<>>
Some(v) == <<v>>

BadByte == "0xFF"
WhiteSpace == {" ", "\t"}

kw_chunked == <<"c","h","u","n","k","e","d">>
kw_gzip == <<"g","z","i","p">>
kw_deflate == <<"d","e","f","l","a","t","e">>
kw_compress == <<"c","o","m","p","r","e","s","s">>

\* str::from_utf8 succeeds exactly on the byte strings without an invalid byte
from_utf8_ok(line) == \A i \in 1..Len(line) : line[i] # BadByte

\* ---------------------------------------------------------------- Encoding
Chunked == [tag |-> "Chunked", s |-> <<>>]
Gzip == [tag |-> "Gzip", s |-> <<>>]
Deflate == [tag |-> "Deflate", s |-> <<>>]
Compress == [tag |-> "Compress", s |-> <<>>]
EncodingExt(str) == [tag |-> "EncodingExt", s |-> str]

Encoding_fmt_typo(e) ==
    CASE e = Chunked -> kw_chunked
      [] e = Gzip -> kw_deflate
      [] e = Deflate -> kw_deflate
      [] e = Compress -> kw_compress
      [] OTHER -> e.s

Encoding_fmt_caps(e) ==
    CASE e = Chunked -> kw_chunked
      [] e = Gzip -> <<"G","z","i","p">>
      [] e = Deflate -> kw_deflate
      [] e = Compress -> kw_compress
      [] OTHER -> e.s

Encoding_fmt(e) ==
    CASE e = Chunked -> kw_chunked
      [] e = Gzip -> kw_gzip
      [] e = Deflate -> kw_deflate
      [] e = Compress -> kw_compress
      [] OTHER -> e.s

ToLowerChar(c) ==
    CASE c = "G" -> "g"
      [] c = "C" -> "c"
      [] c = "H" -> "h"
      [] c = "U" -> "u"
      [] c = "N" -> "n"
      [] c = "K" -> "k"
      [] c = "E" -> "e"
      [] c = "D" -> "d"
      [] OTHER -> c

ToLower(str) == [i \in 1..Len(str) |-> ToLowerChar(str[i])]

Encoding_from_str_nocase(str) ==
    CASE ToLower(str) = kw_chunked -> Some(Chunked)
      [] ToLower(str) = kw_deflate -> Some(Deflate)
      [] ToLower(str) = kw_gzip -> Some(Gzip)
      [] ToLower(str) = kw_compress -> Some(Compress)
      [] OTHER -> Some(EncodingExt(str))

Encoding_from_str_strict(str) ==
    CASE str = kw_chunked -> Some(Chunked)
      [] str = kw_deflate -> Some(Deflate)
      [] str = kw_gzip -> Some(Gzip)
      [] str = kw_compress -> Some(Compress)
      [] OTHER -> None

Encoding_from_str_nogzip(str) ==
    CASE str = kw_chunked -> Some(Chunked)
      [] str = kw_deflate -> Some(Deflate)
      [] str = kw_compress -> Some(Compress)
      [] OTHER -> Some(EncodingExt(str))

Encoding_from_str(str) ==
    CASE str = kw_chunked -> Some(Chunked)
      [] str = kw_deflate -> Some(Deflate)
      [] str = kw_gzip -> Some(Gzip)
      [] str = kw_compress -> Some(Compress)
      [] OTHER -> Some(EncodingExt(str))

\* ------------------------------------------------- header::shared::util
RECURSIVE SplitComma(_)
SplitComma(str) ==
    IF \A i \in 1..Len(str) : str[i] # ","
    THEN <<str>>
    ELSE LET i == CHOOSE j \in 1..Len(str) :
                     str[j] = "," /\ \A k \in 1..(j-1) : str[k] # ","
         IN  <<SubSeq(str, 1, i-1)>> \o SplitComma(SubSeq(str, i+1, Len(str)))

RECURSIVE TrimLeft(_)
TrimLeft(str) ==
    IF str # <<>> /\ Head(str) \in WhiteSpace THEN TrimLeft(Tail(str)) ELSE str

RECURSIVE TrimRight(_)
TrimRight(str) ==
    IF str # <<>> /\ str[Len(str)] \in WhiteSpace
    THEN TrimRight(SubSeq(str, 1, Len(str)-1))
    ELSE str

Trim(str) == TrimRight(TrimLeft(str))

NonEmpty(str) == str # <<>>

RECURSIVE Flatten(_)
Flatten(seqs) == IF seqs = <<>> THEN <<>> ELSE Head(seqs) \o Flatten(Tail(seqs))

\* the trimmed, non-empty pieces of every line, in wire order
Pieces(lines) ==
    Flatten([l \in 1..Len(lines) |->
        LET split == SplitComma(lines[l])
        IN  SelectSeq([i \in 1..Len(split) |-> Trim(split[i])], NonEmpty)])

\* instantiated with T = Encoding
from_comma_delimited(lines) ==
    IF lines = <<>> THEN None
    ELSE IF \E l \in 1..Len(lines) : ~from_utf8_ok(lines[l]) THEN None
    ELSE LET pieces == Pieces(lines)
             toks == [i \in 1..Len(pieces) |-> Encoding_from_str(pieces[i])]
         IN  IF \E i \in 1..Len(toks) : toks[i] = None THEN None
             ELSE Some([i \in 1..Len(toks) |-> toks[i][1]])

RECURSIVE JoinCommaSpace(_)
JoinCommaSpace(texts) ==
    IF texts = <<>> THEN <<>>
    ELSE IF Len(texts) = 1 THEN texts[1]
    ELSE Head(texts) \o <<",", " ">> \o JoinCommaSpace(Tail(texts))

\* instantiated with T = Encoding
fmt_comma_delimited(parts) ==
    JoinCommaSpace([i \in 1..Len(parts) |-> Encoding_fmt(parts[i])])


\* --------------------------------------------------------------------- u64
Digits == <<"0","1","2","3","4","5","6","7","8","9">>
U64_MAX == <<1,8,4,4,6,7,4,4,0,7,3,7,0,9,5,5,1,6,1,5>>

IsDigit(c) == \E i \in 1..Len(Digits) : Digits[i] = c
to_digit(c) == (CHOOSE i \in 1..Len(Digits) : Digits[i] = c) - 1

\* a <= b for digit sequences of the same length
RECURSIVE LexLE(_, _)
LexLE(a, b) ==
    IF a = <<>> THEN TRUE
    ELSE IF Head(a) # Head(b) THEN Head(a) < Head(b)
    ELSE LexLE(Tail(a), Tail(b))

FitsU64(n) == Len(n) < Len(U64_MAX) \/ (Len(n) = Len(U64_MAX) /\ LexLE(n, U64_MAX))

\* result * 10 and result + x, each None on overflow (checked_mul, checked_add)
checked_mul10(n) ==
    LET r == IF n = <<>> THEN <<>> ELSE Append(n, 0)
    IN  IF FitsU64(r) THEN Some(r) ELSE None

checked_add_digit(n, x) ==
    LET r == IF n = <<>> THEN (IF x = 0 THEN <<>> ELSE <<x>>)
             ELSE [n EXCEPT ![Len(n)] = x]
    IN  IF FitsU64(r) THEN Some(r) ELSE None

RECURSIVE ParseDigits(_, _)
ParseDigits(result, str) ==
    IF str = <<>> THEN Some(result)
    ELSE IF ~IsDigit(Head(str)) THEN None
    ELSE LET m == checked_mul10(result)
         IN  IF m = None THEN None
             ELSE LET a == checked_add_digit(m[1], to_digit(Head(str)))
                  IN  IF a = None THEN None ELSE ParseDigits(a[1], Tail(str))

u64_from_str(str) == IF str = <<>> THEN None ELSE ParseDigits(<<>>, str)

u64_fmt(n) == IF n = <<>> THEN <<"0">> ELSE [i \in 1..Len(n) |-> Digits[n[i] + 1]]

\* instantiated with T = u64
from_one_raw_str(lines) ==
    IF Len(lines) # 1 THEN None
    ELSE IF ~from_utf8_ok(lines[1]) THEN None
    ELSE u64_from_str(lines[1])

\* ----------------------------------------------------------- ContentLength
ContentLength_parse_header_first(lines) ==
    IF lines = <<>> THEN None ELSE from_one_raw_str(<<lines[1]>>)

ContentLength_parse_header_trim(lines) ==
    from_one_raw_str([i \in 1..Len(lines) |-> Trim(lines[i])])

ContentLength_parse_header(lines) == from_one_raw_str(lines)

ContentLength_fmt_header_signed(n) == <<"+">> \o u64_fmt(n)

ContentLength_fmt_header(n) == u64_fmt(n)

\* -------------------------------------------------------- TransferEncoding
TransferEncoding_parse_header_first(lines) ==
    IF lines = <<>> THEN None ELSE from_comma_delimited(<<lines[1]>>)

TransferEncoding_parse_header(lines) == from_comma_delimited(lines)

TransferEncoding_fmt_header(v) == fmt_comma_delimited(v)

\* ------------------------------------------------------------------ inputs
\* byte strings the store delivers for a Transfer-Encoding header
EncodingFrags ==
    { kw_chunked, kw_gzip, kw_deflate, kw_compress, <<"e","x","t">>,
      <<"G","z","i","p">>, <<"C","H","U","N","K","E","D">>,
      <<",">>, <<" ">>, <<",", " ">>, <<BadByte>> }

\* byte strings the store delivers for a Content-Length header
LengthFrags ==
    { <<"0">>, <<"4","2">>, <<"1","0">>, <<"2","0">>,
      <<"4","2","3","4","9","9","8","4">>,
      <<"1","8","4","4","6","7","4","4","0","7","3","7","0","9","5","5","1","6","1">>,
      <<"5">>, <<"6">>, <<"+">>, <<"-">>, <<" ">>, <<"a">>, <<BadByte>> }

\* strings an application puts in an EncodingExt
ExtFrags == { kw_gzip, kw_chunked, <<"x">>, <<",">>, <<" ">> }

RECURSIVE ExtStrings(_)
ExtStrings(n) ==
    IF n = 0 THEN {<<>>}
    ELSE LET S == ExtStrings(n - 1)
         IN  S \cup {str \o f : str \in S, f \in ExtFrags}

Encodings ==
    {Chunked, Gzip, Deflate, Compress}
        \cup {EncodingExt(str) : str \in ExtStrings(MaxExtFrags)}

RECURSIVE EncodingSeqs(_)
EncodingSeqs(n) ==
    IF n = 0 THEN {<<>>}
    ELSE LET S == EncodingSeqs(n - 1)
         IN  S \cup {Append(v, e) : v \in S, e \in Encodings}

LengthValues == { <<>>, <<7>>, <<4,2,3,4,9,9,8,4>>, U64_MAX }

\* ----------------------------------------------------------- state machine
IsTE == kind = "TransferEncoding"
IsCL == kind = "ContentLength"

Init ==
    /\ kind \in {"TransferEncoding", "ContentLength"}
    /\ pc = "recv"
    /\ origin = "none"
    /\ raw = <<>>
    /\ nfrags = 0
    /\ parsed = None
    /\ tok = None
    /\ out = <<>>
    /\ reparsed = None

\* the store receives one more (still empty) line of this header
ReceiveLine ==
    /\ pc = "recv"
    /\ Len(raw) < MaxLines
    /\ raw' = Append(raw, <<>>)
    /\ UNCHANGED <<kind, pc, origin, nfrags, parsed, tok, out, reparsed>>

\* the store receives more bytes of the last line
ReceiveBytes ==
    /\ pc = "recv"
    /\ raw # <<>>
    /\ nfrags < MaxFrags
    /\ \E f \in (IF IsTE THEN EncodingFrags ELSE LengthFrags) :
           raw' = [raw EXCEPT ![Len(raw)] = @ \o f]
    /\ nfrags' = nfrags + 1
    /\ UNCHANGED <<kind, pc, origin, parsed, tok, out, reparsed>>

\* Encoding::from_str on a string
TokenFromStr ==
    /\ pc = "recv"
    /\ IsTE
    /\ Len(raw) = 1
    /\ from_utf8_ok(raw[1])
    /\ tok' = Encoding_from_str(raw[1])
    /\ pc' = "token"
    /\ UNCHANGED <<kind, origin, raw, nfrags, parsed, out, reparsed>>

\* Header::parse_header for TransferEncoding on the raw lines
TEParse ==
    /\ pc = "recv"
    /\ IsTE
    /\ parsed' = TransferEncoding_parse_header(raw)
    /\ pc' = "parsed"
    /\ origin' = "wire"
    /\ UNCHANGED <<kind, raw, nfrags, tok, out, reparsed>>

\* the application constructs TransferEncoding(vec![...])
TESet ==
    /\ pc = "recv"
    /\ IsTE
    /\ raw = <<>>
    /\ \E v \in EncodingSeqs(MaxTokens) : parsed' = Some(v)
    /\ pc' = "parsed"
    /\ origin' = "app"
    /\ UNCHANGED <<kind, raw, nfrags, tok, out, reparsed>>

\* HeaderFormat::fmt_header for TransferEncoding
TEFormat ==
    /\ pc = "parsed"
    /\ IsTE
    /\ parsed # None
    /\ out' = TransferEncoding_fmt_header(parsed[1])
    /\ pc' = "formatted"
    /\ UNCHANGED <<kind, origin, raw, nfrags, parsed, tok, reparsed>>

\* parse_header on the single line fmt_header wrote
TEReparse ==
    /\ pc = "formatted"
    /\ IsTE
    /\ reparsed' = TransferEncoding_parse_header(<<out>>)
    /\ pc' = "reparsed"
    /\ UNCHANGED <<kind, origin, raw, nfrags, parsed, tok, out>>

\* Header::parse_header for ContentLength on the raw lines
CLParse ==
    /\ pc = "recv"
    /\ IsCL
    /\ parsed' = ContentLength_parse_header(raw)
    /\ pc' = "parsed"
    /\ origin' = "wire"
    /\ UNCHANGED <<kind, raw, nfrags, tok, out, reparsed>>

\* the application constructs ContentLength(n)
CLSet ==
    /\ pc = "recv"
    /\ IsCL
    /\ raw = <<>>
    /\ \E n \in LengthValues : parsed' = Some(n)
    /\ pc' = "parsed"
    /\ origin' = "app"
    /\ UNCHANGED <<kind, raw, nfrags, tok, out, reparsed>>

\* HeaderFormat::fmt_header for ContentLength
CLFormat ==
    /\ pc = "parsed"
    /\ IsCL
    /\ parsed # None
    /\ out' = ContentLength_fmt_header(parsed[1])
    /\ pc' = "formatted"
    /\ UNCHANGED <<kind, origin, raw, nfrags, parsed, tok, reparsed>>

\* parse_header on the single line fmt_header wrote
CLReparse ==
    /\ pc = "formatted"
    /\ IsCL
    /\ reparsed' = ContentLength_parse_header(<<out>>)
    /\ pc' = "reparsed"
    /\ UNCHANGED <<kind, origin, raw, nfrags, parsed, tok, out>>

Next ==
    \/ ReceiveLine
    \/ ReceiveBytes
    \/ TokenFromStr
    \/ TEParse
    \/ TESet
    \/ TEFormat
    \/ TEReparse
    \/ CLParse
    \/ CLSet
    \/ CLFormat
    \/ CLReparse

Spec == Init /\ [][Next]_vars

\* ------------------------------------------------ vocabulary of the claims
Wire == origin = "wire"
Decoded == pc \in {"parsed", "formatted", "reparsed"}
Encoded == pc \in {"formatted", "reparsed"}

Keywords == {kw_chunked, kw_gzip, kw_deflate, kw_compress}

\* the known variant a keyword names, an EncodingExt for any other string
VariantOf(str) ==
    IF str = kw_chunked THEN Chunked
    ELSE IF str = kw_gzip THEN Gzip
    ELSE IF str = kw_deflate THEN Deflate
    ELSE IF str = kw_compress THEN Compress
    ELSE EncodingExt(str)

\* the wire text of a token
TextOf(e) ==
    IF e.tag = "Chunked" THEN kw_chunked
    ELSE IF e.tag = "Gzip" THEN kw_gzip
    ELSE IF e.tag = "Deflate" THEN kw_deflate
    ELSE IF e.tag = "Compress" THEN kw_compress
    ELSE e.s

Normalized(v) ==
    [i \in 1..Len(v) |-> IF v[i].tag = "EncodingExt" THEN VariantOf(v[i].s) ELSE v[i]]

\* a string that is one token on the wire: not empty, no comma, no
\* whitespace at either end
CleanToken(str) ==
    /\ str # <<>>
    /\ \A i \in 1..Len(str) : str[i] # ","
    /\ str[1] \notin WhiteSpace
    /\ str[Len(str)] \notin WhiteSpace

AllClean(v) == \A i \in 1..Len(v) : v[i].tag = "EncodingExt" => CleanToken(v[i].s)

\* C1 as stated: every sequence of at least one token, an EncodingExt holding
\* any string at all, is decoded from its encoding as itself, up to the
\* replacement of an EncodingExt keyword by the known variant.
C1_RoundTripAnyString ==
    (IsTE /\ pc = "reparsed" /\ Len(parsed[1]) >= 1)
        => reparsed = Some(Normalized(parsed[1]))

\* C1 amended: the same for the sequences whose EncodingExt strings are not
\* empty, hold no comma and neither start nor end with whitespace.
C1_RoundTripCleanTokens ==
    (IsTE /\ pc = "reparsed" /\ Len(parsed[1]) >= 1 /\ AllClean(parsed[1]))
        => reparsed = Some(Normalized(parsed[1]))

C1_Witness ==
    /\ IsTE /\ pc = "reparsed" /\ origin = "app"
    /\ parsed = Some(<<EncodingExt(kw_gzip), EncodingExt(<<"x", "x">>)>>)
    /\ out = kw_gzip \o <<",", " ", "x", "x">>
    /\ reparsed = Some(<<Gzip, EncodingExt(<<"x", "x">>)>>)

\* the value a string of decimal digits denotes
DigitValue(c) ==
    CASE c = "0" -> 0 [] c = "1" -> 1 [] c = "2" -> 2 [] c = "3" -> 3
      [] c = "4" -> 4 [] c = "5" -> 5 [] c = "6" -> 6 [] c = "7" -> 7
      [] c = "8" -> 8 [] c = "9" -> 9

AllDigits(str) ==
    \A i \in 1..Len(str) : str[i] \in {"0","1","2","3","4","5","6","7","8","9"}

Denoted(str) ==
    LET nz == {i \in 1..Len(str) : str[i] # "0"}
    IN  IF nz = {} THEN <<>>
        ELSE LET m == CHOOSE i \in nz : \A j \in nz : i <= j
             IN  [i \in 1..(Len(str) - m + 1) |-> DigitValue(str[i + m - 1])]

\* n <= 2^64 - 1
AtMostMax(n) ==
    \/ Len(n) < Len(U64_MAX)
    \/ /\ Len(n) = Len(U64_MAX)
       /\ \/ n = U64_MAX
          \/ \E i \in 1..Len(n) :
                 n[i] < U64_MAX[i] /\ \A j \in 1..(i-1) : n[j] = U64_MAX[j]

DecimalInRange(str) == str # <<>> /\ AllDigits(str) /\ AtMostMax(Denoted(str))

\* C2: one raw line of decimal digits denoting n <= 2^64-1 decodes to
\* Some(ContentLength(n)), and the encoding of every ContentLength(n) decodes
\* back to Some(ContentLength(n)); "42349984" decodes to 42349984 and is
\* encoded as "42349984".
C2_DecodeAndRoundTrip ==
    /\ (IsCL /\ Wire /\ Decoded /\ Len(raw) = 1 /\ DecimalInRange(raw[1]))
           => parsed = Some(Denoted(raw[1]))
    /\ (IsCL /\ pc = "reparsed") => reparsed = parsed
    /\ (IsCL /\ Wire /\ Encoded /\ raw = <<<<"4","2","3","4","9","9","8","4">>>>)
           => out = <<"4","2","3","4","9","9","8","4">>

C2_Witness ==
    /\ IsCL /\ Wire /\ pc = "reparsed"
    /\ raw = <<<<"0","1","8","4","4","6","7","4","4","0","7","3","7","0","9",
                 "5","5","1","6","1","5">>>>
    /\ parsed = Some(U64_MAX)
    /\ out = Tail(raw[1])
    /\ reparsed = Some(U64_MAX)

\* C3: Content-Length decodes to None from zero lines, from two or more
\* lines (valid numbers or not) and from one line holding a non-digit.
C3_NoneUnlessOneDigitLine ==
    (IsCL /\ Wire /\ Decoded /\
        (Len(raw) = 0 \/ Len(raw) >= 2 \/ (Len(raw) = 1 /\ ~AllDigits(raw[1]))))
        => parsed = None

C3_Witness ==
    /\ IsCL /\ Wire /\ pc = "parsed"
    /\ raw = <<<<"1","0">>, <<"2","0">>>>
    /\ parsed = None

\* the fields of the raw lines: <<l, a, b>> is the part of line l strictly
\* between two neighbouring cuts a < b, a cut being a comma or a line end
Cuts(line) == {0, Len(line) + 1} \cup {i \in 1..Len(line) : line[i] = ","}

Inked(line, a, b) == {i \in (a+1)..(b-1) : line[i] \notin WhiteSpace}

Fields(lines) ==
    {f \in UNION {{<<l, a, b>> : a \in Cuts(lines[l]), b \in Cuts(lines[l])} :
                     l \in 1..Len(lines)} :
        /\ f[2] < f[3]
        /\ \A c \in Cuts(lines[f[1]]) : ~(f[2] < c /\ c < f[3])
        /\ Inked(lines[f[1]], f[2], f[3]) # {}}

\* wire order: line by line, left to right within a line
Before(f, g) == f[1] < g[1] \/ (f[1] = g[1] /\ f[2] <= g[2])

Rank(lines, f) == Cardinality({g \in Fields(lines) : Before(g, f)})

\* a field without the whitespace around it
Core(lines, f) ==
    LET ink == Inked(lines[f[1]], f[2], f[3])
        lo == CHOOSE i \in ink : \A j \in ink : i <= j
        hi == CHOOSE i \in ink : \A j \in ink : j <= i
    IN  SubSeq(lines[f[1]], lo, hi)

AllText(lines) == \A l \in 1..Len(lines) : from_utf8_ok(lines[l])

\* C4: from N >= 1 lines of valid text, Transfer-Encoding decodes to one
\* token per non-blank comma-separated field, each the Encoding of the
\* field without its surrounding whitespace, in wire order: the fields of
\* line 1 from left to right, then those of line 2, and so on.
C4_TokensInWireOrder ==
    (IsTE /\ Wire /\ Decoded /\ Len(raw) >= 1 /\ AllText(raw))
        => /\ parsed # None
           /\ Len(parsed[1]) = Cardinality(Fields(raw))
           /\ \A f \in Fields(raw) :
                  parsed[1][Rank(raw, f)] = VariantOf(Core(raw, f))

C4_Witness ==
    /\ IsTE /\ Wire /\ pc = "parsed"
    /\ raw = <<<<",", " ">> \o kw_gzip, kw_chunked>>
    /\ parsed = Some(<<Gzip, Chunked>>)

\* C5: Encoding::from_str returns Some for every string: the known variant
\* exactly for "chunked", "gzip", "deflate" and "compress", byte for byte,
\* and EncodingExt of the very string for any other string.
C5_FromStrTotalCaseSensitive ==
    pc = "token" =>
        /\ tok # None
        /\ tok[1] = Chunked <=> raw[1] = kw_chunked
        /\ tok[1] = Gzip <=> raw[1] = kw_gzip
        /\ tok[1] = Deflate <=> raw[1] = kw_deflate
        /\ tok[1] = Compress <=> raw[1] = kw_compress
        /\ raw[1] \notin Keywords => tok[1] = [tag |-> "EncodingExt", s |-> raw[1]]

C5_Witness ==
    /\ pc = "token"
    /\ raw = <<<<"G","z","i","p">>>>
    /\ tok = Some(EncodingExt(<<"G","z","i","p">>))

\* C6: Transfer-Encoding decodes to None from zero lines and from lines one
\* of which is not valid text, and to Some from every other input.
C6_NoneOnlyWithoutText ==
    (IsTE /\ Wire /\ Decoded)
        => (parsed = None <=> (Len(raw) = 0 \/ ~AllText(raw)))

C6_Witness ==
    /\ IsTE /\ Wire /\ pc = "parsed"
    /\ raw = <<<<"e","x","t">>, <<"C","H","U","N","K","E","D">>>>
    /\ parsed = Some(<<EncodingExt(raw[1]), EncodingExt(raw[2])>>)

\* C7: a Transfer-Encoding that decodes to Some holds at least one token,
\* also from lines such as "", "," and " , ", and no token is an
\* EncodingExt of the empty string.
C7_NonEmptyWhenPresent ==
    (IsTE /\ Wire /\ Decoded /\ parsed # None)
        => /\ parsed[1] # <<>>
           /\ \A i \in 1..Len(parsed[1]) : parsed[1][i] # EncodingExt(<<>>)

\* where the text of token i starts in the encoding, less one
RECURSIVE Offset(_, _)
Offset(v, i) == IF i = 1 THEN 0 ELSE Offset(v, i-1) + Len(TextOf(v[i-1])) + 2

\* C8: fmt_header writes the texts of the tokens in stored order with ", "
\* between neighbours and nothing before the first or after the last, a
\* known variant as its keyword and an EncodingExt as its string; the line
\* "chunked, gzip" decodes to [Chunked, Gzip], encoded as "chunked, gzip".
C8_JoinedByCommaSpace ==
    /\ (IsTE /\ Encoded) =>
           LET v == parsed[1]
               k == Len(v)
           IN  /\ k = 0 => out = <<>>
               /\ k > 0 => Len(out) = Offset(v, k) + Len(TextOf(v[k]))
               /\ \A i \in 1..k :
                      SubSeq(out, Offset(v, i) + 1, Offset(v, i) + Len(TextOf(v[i])))
                          = TextOf(v[i])
               /\ \A i \in 2..k :
                      /\ out[Offset(v, i) - 1] = ","
                      /\ out[Offset(v, i)] = " "
    /\ (IsTE /\ Wire /\ Decoded /\ raw = <<kw_chunked \o <<",", " ">> \o kw_gzip>>)
           => /\ parsed = Some(<<Chunked, Gzip>>)
              /\ Encoded => out = raw[1]

C8_Witness ==
    /\ IsTE /\ Wire /\ pc = "formatted"
    /\ raw = <<kw_chunked \o <<",", " ">> \o kw_gzip>>
    /\ parsed = Some(<<Chunked, Gzip>>)
    /\ out = kw_chunked \o <<",", " ">> \o kw_gzip

\* C9: a single Content-Length line is accepted only when it is made of
\* ASCII digits alone and its value fits 64 bits: an empty line, a sign, a
\* space or a value above 2^64-1 give None, never a wrapped value, and
\* leading zeros are accepted ("0042" decodes to 42).
C9_DigitsOnlyWithin64Bits ==
    (IsCL /\ Wire /\ Decoded /\ Len(raw) = 1) =>
        /\ parsed # None => (raw[1] # <<>> /\ AllDigits(raw[1]))
        /\ (raw[1] # <<>> /\ raw[1][1] \in {"+", "-", " "}) => parsed = None
        /\ (raw[1] # <<>> /\ raw[1][Len(raw[1])] = " ") => parsed = None
        /\ (AllDigits(raw[1]) /\ ~AtMostMax(Denoted(raw[1]))) => parsed = None
        /\ parsed # None => AtMostMax(parsed[1])
        /\ raw[1] = <<"0", "0", "4", "2">> => parsed = Some(<<4, 2>>)

C9_Witness ==
    /\ IsCL /\ Wire /\ pc = "parsed"
    /\ raw = <<<<"1","8","4","4","6","7","4","4","0","7","3","7","0","9",
                 "5","5","1","6","1","6">>>>
    /\ parsed = None

\* C10: a Transfer-Encoding decoded from raw lines is decoded again from its
\* own encoding as the same list, and it holds no EncodingExt whose string
\* is one of the keywords.
C10_DecodedIsFixedPoint ==
    /\ (IsTE /\ Wire /\ pc = "reparsed") => reparsed = parsed
    /\ (IsTE /\ Wire /\ Decoded /\ parsed # None) =>
           \A i \in 1..Len(parsed[1]) :
               parsed[1][i].tag = "EncodingExt" => parsed[1][i].s \notin Keywords

C10_Witness ==
    /\ IsTE /\ Wire /\ pc = "reparsed"
    /\ raw = <<<<" ">> \o kw_gzip, kw_deflate>>
    /\ out = kw_gzip \o <<",", " ">> \o kw_deflate
    /\ reparsed = Some(<<Gzip, Deflate>>)
====
